---- MODULE Spec2Model ----
(***************************************************************************)
(* Building-code viewer: hierarchy reconstruction (buildHierarchy) and the *)
(* view-state machine of BuildingCodeViewer (expansion, selection, search, *)
(* navigation timers, content loading).                                    *)
(*                                                                         *)
(* Strings are sequences of character codes (ASCII), so that toLowerCase,  *)
(* trim and includes are computed and not assumed.  A null / absent value  *)
(* is Null for numbers and NullStr for strings.                            *)
(***************************************************************************)
EXTENDS Integers, Sequences, FiniteSets, TLC

\* ------------------------------------------------------------------------
\* Bounds of the hierarchy-builder inputs
\* ------------------------------------------------------------------------
MaxRecords == 2
MaxId == 2
MaxSeq == 2

\* null / undefined number (parent_id: number | null)
Null == -1
\* null string (title: string | null)
NullStr == <<-1>>

Range(s) == {s[i] : i \in 1..Len(s)}

\* ------------------------------------------------------------------------
\* BuildingCodeItem (flat record) and HierarchyNode
\* ------------------------------------------------------------------------
Item(id, parent, type, seq, title, text, code, refs) ==
  [id |-> id, parent_id |-> parent, content_type |-> type,
   sequence_order |-> seq, title |-> title, content_text |-> text,
   reference_code |-> code, references |-> refs]

\* { ...item, children }
HierarchyNode(item, children) ==
  [id |-> item.id, parent_id |-> item.parent_id,
   content_type |-> item.content_type,
   sequence_order |-> item.sequence_order, title |-> item.title,
   content_text |-> item.content_text,
   reference_code |-> item.reference_code,
   references |-> item.references, children |-> children]

\* JavaScript truthiness of a number | null: null and 0 are falsy
Truthy(n) == n # Null /\ n # 0

\* ------------------------------------------------------------------------
\* buildHierarchy
\* ------------------------------------------------------------------------
\* keys of `map` after the first forEach
MapKeys(flat) == {flat[i].id : i \in 1..Len(flat)}

\* map.get(id): map.set overwrites, so the last record with that id wins
MapGet(flat, id) ==
  flat[CHOOSE i \in 1..Len(flat) :
         /\ flat[i].id = id
         /\ \A j \in (i+1)..Len(flat) : flat[j].id # id]

\* mutant: the parent is not looked up in the map
LinksToParent_NoLookup(flat, item) == Truthy(item.parent_id)

\* the test of the second forEach: the record is linked under its parent
LinksToParent(flat, item) ==
  Truthy(item.parent_id) /\ item.parent_id \in MapKeys(flat)

RECURSIVE PushedIds(_, _, _)
\* ids pushed, in input order, by the records at the positions in `keep`
PushedIds(flat, i, keep) ==
  IF i > Len(flat) THEN <<>>
  ELSE (IF i \in keep THEN <<flat[i].id>> ELSE <<>>)
       \o PushedIds(flat, i + 1, keep)

\* roots after the second forEach (node identities are map keys)
RootIds(flat) ==
  PushedIds(flat, 1, {i \in 1..Len(flat) : ~LinksToParent(flat, flat[i])})

\* map.get(p).children after the second forEach
ChildIds(flat, p) ==
  PushedIds(flat, 1, {i \in 1..Len(flat) :
                        LinksToParent(flat, flat[i]) /\ flat[i].parent_id = p})

\* mutant: equal keys count as out of order
NotAfter_Strict(flat, a, b) ==
  MapGet(flat, a).sequence_order - MapGet(flat, b).sequence_order < 0

\* the comparator (a, b) => a.sequence_order - b.sequence_order, as "a <= b"
NotAfter(flat, a, b) ==
  MapGet(flat, a).sequence_order - MapGet(flat, b).sequence_order <= 0

RECURSIVE InsertSorted(_, _, _)
\* insert id behind every element that does not sort after it (stable)
InsertSorted(flat, sorted, id) ==
  IF sorted = <<>> THEN <<id>>
  ELSE IF NotAfter(flat, Head(sorted), id)
       THEN <<Head(sorted)>> \o InsertSorted(flat, Tail(sorted), id)
       ELSE <<id>> \o sorted

RECURSIVE SortBySequenceOrder(_, _)
\* nodes.sort((a, b) => a.sequence_order - b.sequence_order): stable
SortBySequenceOrder(flat, ids) ==
  IF ids = <<>> THEN <<>>
  ELSE InsertSorted(flat,
                    SortBySequenceOrder(flat, SubSeq(ids, 1, Len(ids) - 1)),
                    ids[Len(ids)])

RECURSIVE LevelAt(_, _, _)
\* ids visited by sortChildren at recursion level `depth` below `ids`
LevelAt(flat, ids, depth) ==
  IF depth = 0 THEN ids
  ELSE LevelAt(flat, UNION {Range(ChildIds(flat, p)) : p \in ids}, depth - 1)

\* sortChildren never returns: some chain of children arrays reachable from
\* the roots is longer than the number of nodes (RangeError: call stack)
SortRecursionUnbounded(flat) ==
  LevelAt(flat, Range(RootIds(flat)), Cardinality(MapKeys(flat)) + 1) # {}

RECURSIVE sortChildren(_, _)
sortChildren(flat, ids) ==
  LET sorted == SortBySequenceOrder(flat, ids)
  IN [i \in 1..Len(sorted) |->
        HierarchyNode(MapGet(flat, sorted[i]),
                      sortChildren(flat, ChildIds(flat, sorted[i])))]

buildHierarchy(flat) == sortChildren(flat, RootIds(flat))

\* ------------------------------------------------------------------------
\* Walks over a built forest
\* ------------------------------------------------------------------------
RECURSIVE PreOrder(_)
\* the nodes of a forest in depth-first pre-order
PreOrder(nodes) ==
  IF nodes = <<>> THEN <<>>
  ELSE <<Head(nodes)>> \o PreOrder(Head(nodes).children)
       \o PreOrder(Tail(nodes))

IdsOf(nodes) == [i \in 1..Len(nodes) |-> nodes[i].id]

\* ------------------------------------------------------------------------
\* Strings (sequences of character codes)
\* ------------------------------------------------------------------------
\* String.prototype.toLowerCase on ASCII
toLowerCase(s) ==
  [i \in 1..Len(s) |-> IF s[i] \in 65..90 THEN s[i] + 32 ELSE s[i]]

IsWhiteSpace(c) == c \in {9, 10, 13, 32}

RECURSIVE trimStart(_)
trimStart(s) ==
  IF s # <<>> /\ IsWhiteSpace(Head(s)) THEN trimStart(Tail(s)) ELSE s

RECURSIVE trimEnd(_)
trimEnd(s) ==
  IF s # <<>> /\ IsWhiteSpace(s[Len(s)])
  THEN trimEnd(SubSeq(s, 1, Len(s) - 1)) ELSE s

\* String.prototype.trim
trim(s) == trimEnd(trimStart(s))

\* String.prototype.indexOf(needle, from): 0-based, -1 when absent
indexOf(hay, needle, from) ==
  LET hits == {i \in from..(Len(hay) - Len(needle)) :
                 SubSeq(hay, i + 1, i + Len(needle)) = needle}
  IN IF hits = {} THEN -1
     ELSE CHOOSE i \in hits : \A j \in hits : i <= j

\* String.prototype.includes
includes(hay, needle) == indexOf(hay, needle, 0) # -1

\* ------------------------------------------------------------------------
\* Documents served by the content API
\* ------------------------------------------------------------------------
\* a Reference attached to a record
Ref(text, position, target, hyperlink) ==
  [reference_text |-> text, reference_position |-> position,
   target_content_id |-> target, hyperlink_target |-> hyperlink]

\* an id carried by a reference of document "A" that no record has
AbsentId == 9

\* "A": division 1 > part 2 > article 3 > sentence 4 > clause 5
ContentA ==
  << Item(3, 2, "article", 1, <<70, 105, 98>>, NullStr,
          <<57, 46, 49>>, <<>>),
     Item(1, Null, "division", 1, <<65, 98>>, <<100>>, NullStr,
          << Ref(<<100>>, 0, Null, <<35, 98, 97, 100>>) >>),
     Item(4, 3, "sentence", 1, NullStr,
          <<98, 50, 32, 65, 49, 32, 98, 50>>, NullStr,
          << Ref(<<66, 50>>, 1, 2, NullStr),
             Ref(<<97, 49>>, 0, Null,
                 <<35, 99, 111, 110, 116, 101, 110, 116, 45, 49>>) >>),
     Item(2, 1, "part", 1, <<98>>, NullStr, <<57>>, <<>>),
     Item(5, 4, "clause", 1, <<99, 57>>, NullStr, <<97>>,
          << Ref(<<67, 57>>, 0, AbsentId, NullStr) >>) >>

\* "B": a single division 6, its text "e" a reference to the record 0
ContentB ==
  << Item(6, Null, "division", 1, <<66, 98>>, <<101>>, NullStr,
          << Ref(<<101>>, 0, 0, NullStr) >>) >>

Docs == {"A", "B"}

\* libraryService.getPdfDocumentContent(documentId).content
Content(doc) == IF doc = "A" THEN ContentA ELSE ContentB

\* ------------------------------------------------------------------------
\* State
\* ------------------------------------------------------------------------
VARIABLES
  flatData,       \* argument of a buildHierarchy call
  result,         \* the forest it returned
  bpc,            \* "idle" | "called" | "returned" | "threw"
  documentId,     \* prop of BuildingCodeViewer
  data,           \* useState<HierarchyNode[]>
  expandedItems,  \* useState<Set<number>>
  searchTerm,     \* useState("")
  loading,        \* useState(true)
  error,          \* useState<string | null>
  selectedItem,   \* useState<number | null>
  searchResults,  \* useState<HierarchyNode[]>
  requests,       \* fetchData calls awaiting the content API, per document
  settleTimers,   \* pending setTimeout(..., 200) of navigateToItem (FIFO)
  clearTimers,    \* pending setTimeout(..., 2000) highlight clears (FIFO)
  highlighted,    \* ids whose mounted element has the highlight background
  callArgs,       \* arguments of a call of a rendering function
  callOut         \* what that call produced

callVars == <<callArgs, callOut>>

buildVars == <<flatData, result, bpc, callArgs, callOut>>

viewVars ==
  <<documentId, data, expandedItems, searchTerm, loading, error,
    selectedItem, searchResults, requests, settleTimers, clearTimers,
    highlighted>>

vars ==
  <<flatData, result, bpc, documentId, data, expandedItems, searchTerm,
    loading, error, selectedItem, searchResults, requests, settleTimers,
    clearTimers, highlighted, callArgs, callOut>>

\* no rendering function is being followed
NoCall == callArgs = <<>> /\ callOut = [status |-> "none", value |-> <<>>]

\* error === null
NoError == "null"

ErrorMessage == "Failed to load building code data."

\* the useState initial values, the mount effect not yet run
Mounted ==
  /\ data = <<>>
  /\ expandedItems = {}
  /\ searchTerm = <<>>
  /\ loading = TRUE
  /\ error = NoError
  /\ selectedItem = Null
  /\ searchResults = <<>>
  /\ settleTimers = <<>>
  /\ clearTimers = <<>>
  /\ highlighted = {}

\* ------------------------------------------------------------------------
\* Rendering: which content elements are mounted (contentRefs.current)
\* ------------------------------------------------------------------------
\* `value && ...` on a string | null
TruthyStr(s) == s # NullStr /\ s # <<>>

\* a mounted content element: the node it shows, the mounted element whose
\* box encloses it (Null if none), whether its onClick stops propagation,
\* and the text it passes to highlightReferences (NullStr if none)
Element(id, within, stops, refText) ==
  [id |-> id, within |-> within, stops |-> stops, refText |-> refText]

RECURSIVE renderClauseContent(_, _)
renderClauseContent(item, within) ==
  IF item.content_type = "clause"
  THEN {Element(item.id, within, TRUE,
                IF TruthyStr(item.title) THEN item.title ELSE NullStr)}
       \cup UNION {renderClauseContent(item.children[i], item.id) :
                     i \in 1..Len(item.children)}
  ELSE IF item.content_type = "subclause"
  THEN {Element(item.id, within, TRUE,
                IF TruthyStr(item.content_text) THEN item.content_text
                ELSE NullStr)}
  ELSE {}

renderArticleChild(item, within) ==
  LET el == Element(item.id, within, FALSE,
                    IF TruthyStr(item.content_text) THEN item.content_text
                    ELSE NullStr)
  IN IF item.content_type = "sentence"
     THEN {el} \cup UNION {renderClauseContent(item.children[i], item.id) :
                             i \in 1..Len(item.children)}
     ELSE {el}

RECURSIVE renderContentItem(_, _)
renderContentItem(item, expanded) ==
  IF item.content_type = "article"
  THEN {Element(item.id, Null, FALSE, NullStr)}
       \cup UNION {renderArticleChild(item.children[i], item.id) :
                     i \in 1..Len(item.children)}
  ELSE {Element(item.id, Null, FALSE,
                IF TruthyStr(item.content_text)
                   /\ item.content_text # item.title
                THEN item.content_text ELSE NullStr)}
       \cup (IF item.children # <<>> /\ item.id \in expanded
             THEN UNION {renderContentItem(item.children[i], expanded) :
                           i \in 1..Len(item.children)}
             ELSE {})

\* the loading and the error screens replace the whole viewer
MainView(isLoading, err) == ~isLoading /\ err = NoError

\* the content elements mounted for this state of the component
ElementsOf(tree, expanded, isLoading, err) ==
  IF MainView(isLoading, err)
  THEN UNION {renderContentItem(tree[i], expanded) : i \in 1..Len(tree)}
  ELSE {}

Elements == ElementsOf(data, expandedItems, loading, error)

\* keys of contentRefs.current that hold an element
Rendered == {el.id : el \in Elements}

\* isSearchMode
isSearchMode == Len(trim(searchTerm)) > 0 /\ Len(searchResults) > 0

shouldShowInNavigation(item) ==
  item.content_type \in {"division", "part", "section", "subsection",
                         "article"}

RECURSIVE renderNavigationItem(_, _)
\* the nodes that have a row in the navigation sidebar
renderNavigationItem(item, expanded) ==
  IF ~shouldShowInNavigation(item) THEN {}
  ELSE {item}
       \cup (IF item.children # <<>> /\ item.id \in expanded
             THEN UNION {renderNavigationItem(item.children[i], expanded) :
                           i \in 1..Len(item.children)}
             ELSE {})

\* rows of the navigation sidebar (hidden in search mode)
NavigationRows ==
  IF MainView(loading, error) /\ ~isSearchMode
  THEN UNION {renderNavigationItem(data[i], expandedItems) :
                i \in 1..Len(data)}
  ELSE {}

\* the parts of the screen the component returns: the loading or the error
\* screen alone, or the header with the search results column or the
\* navigation sidebar, and the content area (its results heading in search
\* mode) or the no-data notice
Panels ==
  IF loading THEN {"loading"}
  ELSE IF error # NoError THEN {"error", "retry"}
  ELSE {"header"}
       \cup (IF isSearchMode THEN {"searchResults"} ELSE {"navigation"})
       \cup (IF Len(data) = 0 THEN {"noData"}
             ELSE {"content"}
                  \cup (IF isSearchMode THEN {"resultsHeading"} ELSE {}))

\* React keeps the DOM element of a node that is rendered before and after
\* an update and discards the others: a discarded element takes its inline
\* highlight with it, and a clear timer holding it no longer shows.
KeptElements(tree, expanded, isLoading, err) ==
  Rendered \cap {el.id : el \in ElementsOf(tree, expanded, isLoading, err)}

RECURSIVE KeepTimers(_, _)
KeepTimers(timers, kept) ==
  IF timers = <<>> THEN <<>>
  ELSE (IF Head(timers) \in kept THEN <<Head(timers)>> ELSE <<>>)
       \o KeepTimers(Tail(timers), kept)

Rerender(tree, expanded, isLoading, err) ==
  LET kept == KeptElements(tree, expanded, isLoading, err)
  IN /\ highlighted' = highlighted \cap kept
     /\ clearTimers' = KeepTimers(clearTimers, kept)

\* ------------------------------------------------------------------------
\* References
\* ------------------------------------------------------------------------
RECURSIVE InsertByPosition(_, _)
InsertByPosition(sorted, ref) ==
  IF sorted = <<>> THEN <<ref>>
  ELSE IF Head(sorted).reference_position - ref.reference_position <= 0
       THEN <<Head(sorted)>> \o InsertByPosition(Tail(sorted), ref)
       ELSE <<ref>> \o sorted

\* mutant: the references are taken in the order they are stored
sortedReferences_Unsorted(references) == references

RECURSIVE sortedReferences(_)
\* [...references].sort((a, b) => a.reference_position - b.reference_position)
sortedReferences(references) ==
  IF references = <<>> THEN <<>>
  ELSE InsertByPosition(
         sortedReferences(SubSeq(references, 1, Len(references) - 1)),
         references[Len(references)])

NoRef == Ref(<<>>, 0, Null, NullStr)

\* a rendered span: plain text, or a clickable reference
Segment(kind, text, ref) == [kind |-> kind, text |-> text, ref |-> ref]

RECURSIVE ScanReferences(_, _, _, _)
\* the forEach over sortedReferences, from reference k with cursor lastIndex
ScanReferences(text, refs, k, lastIndex) ==
  IF k > Len(refs)
  THEN IF lastIndex < Len(text)
       THEN <<Segment("text", SubSeq(text, lastIndex + 1, Len(text)), NoRef)>>
       ELSE <<>>
  ELSE LET refText == refs[k].reference_text
           refIndex == indexOf(toLowerCase(text), toLowerCase(refText),
                               lastIndex)
       IN IF refIndex # -1
          THEN (IF refIndex > lastIndex
                THEN <<Segment("text", SubSeq(text, lastIndex + 1, refIndex),
                               NoRef)>>
                ELSE <<>>)
               \o <<Segment("ref",
                            SubSeq(text, refIndex + 1,
                                   refIndex + Len(refText)),
                            refs[k])>>
               \o ScanReferences(text, refs, k + 1, refIndex + Len(refText))
          ELSE ScanReferences(text, refs, k + 1, lastIndex)

highlightReferences(text, references) ==
  IF ~TruthyStr(text) \/ references = <<>>
  THEN <<Segment("text", text, NoRef)>>
  ELSE ScanReferences(text, sortedReferences(references), 1, 0)

IsDigit(c) == c \in 48..57

RECURSIVE DigitsFrom(_, _)
\* the maximal run of digits of s that starts at position j (1-based)
DigitsFrom(s, j) ==
  IF j <= Len(s) /\ IsDigit(s[j])
  THEN <<s[j]>> \o DigitsFrom(s, j + 1) ELSE <<>>

RECURSIVE parseInt(_)
parseInt(digits) ==
  IF digits = <<>> THEN 0
  ELSE 10 * parseInt(SubSeq(digits, 1, Len(digits) - 1))
       + (digits[Len(digits)] - 48)

\* "#content-"
AnchorPrefix == <<35, 99, 111, 110, 116, 101, 110, 116, 45>>

\* hyperlink_target.match(/#content-(\d+)/): the captured digits, or <<>>
MatchAnchor(s) ==
  LET n == Len(AnchorPrefix)
      starts == {i \in 0..(Len(s) - n - 1) :
                   /\ SubSeq(s, i + 1, i + n) = AnchorPrefix
                   /\ IsDigit(s[i + n + 1])}
  IN IF starts = {} THEN <<>>
     ELSE DigitsFrom(s, (CHOOSE i \in starts : \A j \in starts : i <= j)
                        + n + 1)

\* handleReferenceClick: the id passed to navigateToItem, Null when it
\* makes no call
ReferenceTarget(reference) ==
  IF Truthy(reference.target_content_id)
  THEN reference.target_content_id
  ELSE IF TruthyStr(reference.hyperlink_target)
          /\ MatchAnchor(reference.hyperlink_target) # <<>>
       THEN parseInt(MatchAnchor(reference.hyperlink_target))
       ELSE Null

\* the reference spans on screen: references are linked only while the
\* search box is empty (otherwise the text goes through highlightText)
ReferenceSpans ==
  IF searchTerm # <<>> THEN {}
  ELSE UNION {
         LET node == CHOOSE n \in Range(PreOrder(data)) : n.id = el.id
             segs == highlightReferences(el.refText, node.references)
         IN {segs[i].ref : i \in {j \in 1..Len(segs) : segs[j].kind = "ref"}}
         : el \in {e \in Elements : e.refText # NullStr} }

\* ------------------------------------------------------------------------
\* Match emphasis (highlightText)
\* ------------------------------------------------------------------------
\* new RegExp(`(${highlight})`, "gi") throws a SyntaxError: of the
\* characters followed here only "(" has that effect (an unterminated
\* group, no ")" being among them)
IsSyntaxError(highlight) == \E i \in 1..Len(highlight) : highlight[i] = 40

\* the pattern matches text at offset i (0-based): "." matches any
\* character but a line terminator, every other character followed here
\* matches itself, case ignored (flag i)
MatchesAt(text, pattern, i) ==
  /\ i + Len(pattern) <= Len(text)
  /\ \A k \in 1..Len(pattern) :
       \/ pattern[k] = 46 /\ text[i + k] \notin {10, 13}
       \/ /\ pattern[k] # 46
          /\ toLowerCase(<<pattern[k]>>) = toLowerCase(<<text[i + k]>>)

RECURSIVE split(_, _, _)
\* text.split(/(pattern)/gi) from offset p: the text up to the next match,
\* the match (the capture group), and so on; the rest of the text last
split(text, pattern, p) ==
  LET hits == {i \in p..(Len(text) - 1) : MatchesAt(text, pattern, i)}
  IN IF hits = {} THEN <<SubSeq(text, p + 1, Len(text))>>
     ELSE LET q == CHOOSE i \in hits : \A j \in hits : i <= j
          IN <<SubSeq(text, p + 1, q),
               SubSeq(text, q + 1, q + Len(pattern))>>
             \o split(text, pattern, q + Len(pattern))

\* highlightText, for a pattern that compiles: the parts, a part that
\* equals the term (case ignored) inside <mark>
highlightText(text, highlight) ==
  IF ~TruthyStr(highlight) \/ ~TruthyStr(text)
  THEN <<Segment("text", text, NoRef)>>
  ELSE LET parts == split(text, highlight, 0)
       IN [i \in 1..Len(parts) |->
             Segment(IF toLowerCase(parts[i]) = toLowerCase(highlight)
                     THEN "mark" ELSE "text",
                     parts[i], NoRef)]

\* highlightText throws instead of returning
highlightTextThrows(text, highlight) ==
  TruthyStr(highlight) /\ TruthyStr(text) /\ IsSyntaxError(highlight)

\* ------------------------------------------------------------------------
\* Search
\* ------------------------------------------------------------------------
\* field?.toLowerCase().includes(term.toLowerCase())
FieldIncludes(field, term) ==
  field # NullStr /\ includes(toLowerCase(field), toLowerCase(term))

\* mutant: only the title is searched
matchesSearch_TitleOnly(node, term) == FieldIncludes(node.title, term)

matchesSearch(node, term) ==
  \/ FieldIncludes(node.title, term)
  \/ FieldIncludes(node.content_text, term)
  \/ FieldIncludes(node.reference_code, term)

RECURSIVE searchInNodes(_, _)
searchInNodes(nodes, term) ==
  IF nodes = <<>> THEN <<>>
  ELSE (IF matchesSearch(Head(nodes), term) THEN <<Head(nodes)>> ELSE <<>>)
       \o searchInNodes(Head(nodes).children, term)
       \o searchInNodes(Tail(nodes), term)

\* the value handleSearch passes to setSearchResults
SearchResultsFor(tree, term) ==
  IF trim(term) = <<>> THEN <<>> ELSE searchInNodes(tree, term)

\* ------------------------------------------------------------------------
\* Specification of buildHierarchy as a function of its input
\* ------------------------------------------------------------------------
ParentIds == {Null} \cup 0..(MaxId + 1)

BuildItems ==
  {Item(id, parent, "section", seq, NullStr, NullStr, NullStr, <<>>) :
     id \in 0..MaxId, parent \in ParentIds, seq \in 1..MaxSeq}

FlatInputs == UNION {[1..n -> BuildItems] : n \in 0..MaxRecords}

BuildInit ==
  /\ flatData \in FlatInputs
  /\ result = <<>>
  /\ bpc = "called"
  /\ documentId = "A"
  /\ requests = [d \in Docs |-> 0]
  /\ Mounted
  /\ NoCall

BuildReturn ==
  /\ bpc = "called"
  /\ ~SortRecursionUnbounded(flatData)
  /\ result' = buildHierarchy(flatData)
  /\ bpc' = "returned"
  /\ UNCHANGED <<flatData, viewVars, callVars>>

BuildThrow ==
  /\ bpc = "called"
  /\ SortRecursionUnbounded(flatData)
  /\ bpc' = "threw"
  /\ UNCHANGED <<flatData, result, viewVars, callVars>>

BuildNext == BuildReturn \/ BuildThrow

SpecBuild == BuildInit /\ [][BuildNext]_vars

\* ------------------------------------------------------------------------
\* BuildingCodeViewer: handlers
\* ------------------------------------------------------------------------
\* pending navigation timers (settle and clear together) followed by Spec
MaxTimers == 1
\* pending navigation timers followed by SpecNav
MaxNavTimers == 2
\* fetchData calls awaiting the content API at once followed by Spec
MaxPending == 1

\* what is typed into the search box: "", " ", "b", "q"
SearchTerms == {<<>>, <<32>>, <<98>>, <<113>>}

\* mutant: only the top level is collected
collectIds_TopLevel(nodes) == {nodes[i].id : i \in 1..Len(nodes)}

RECURSIVE collectIds(_)
\* collectIds of fetchData: the ids of every node of the forest
collectIds(nodes) ==
  IF nodes = <<>> THEN {}
  ELSE {Head(nodes).id} \cup collectIds(Head(nodes).children)
       \cup collectIds(Tail(nodes))

RECURSIVE expandParents(_, _, _)
\* depth-first search for targetId; `parents` are the ids on the way down
expandParents(nodes, targetId, parents) ==
  IF nodes = <<>> THEN [found |-> FALSE, parents |-> <<>>]
  ELSE LET node == Head(nodes)
       IN IF node.id = targetId
          THEN [found |-> TRUE, parents |-> parents]
          ELSE LET below == expandParents(node.children, targetId,
                                          Append(parents, node.id))
               IN IF below.found THEN below
                  ELSE expandParents(Tail(nodes), targetId, parents)

\* the state updates queued by the handlers of one event
Queued == [selectedItem |-> selectedItem, expandedItems |-> expandedItems,
           settleTimers |-> settleTimers]

\* mutant: the target is expanded along with its parents
navigateToItem_ExpandsTarget(queued, id) ==
  LET path == expandParents(data, id, <<>>)
  IN [selectedItem |-> id,
      expandedItems |-> IF path.found
                        THEN expandedItems \cup Range(path.parents) \cup {id}
                        ELSE queued.expandedItems,
      settleTimers |-> Append(queued.settleTimers, id)]

\* mutant: the expanded set is replaced by the parents
navigateToItem_Replaces(queued, id) ==
  LET path == expandParents(data, id, <<>>)
  IN [selectedItem |-> id,
      expandedItems |-> IF path.found
                        THEN Range(path.parents)
                        ELSE queued.expandedItems,
      settleTimers |-> Append(queued.settleTimers, id)]

\* navigateToItem(id), run in the closure of the current render: it reads
\* data and expandedItems of that render and queues setSelectedItem,
\* setExpandedItems and a 200 ms timer
navigateToItem(queued, id) ==
  LET path == expandParents(data, id, <<>>)
  IN [selectedItem |-> id,
      expandedItems |-> IF path.found
                        THEN expandedItems \cup Range(path.parents)
                        ELSE queued.expandedItems,
      settleTimers |-> Append(queued.settleTimers, id)]

RECURSIVE NavigateAll(_, _)
\* the navigateToItem calls of one click, innermost handler first
NavigateAll(queued, calls) ==
  IF calls = <<>> THEN queued
  ELSE NavigateAll(navigateToItem(queued, Head(calls)), Tail(calls))

\* the component after the calls of one click have been applied
Navigate(calls) ==
  LET q == NavigateAll(Queued, calls)
  IN /\ selectedItem' = q.selectedItem
     /\ expandedItems' = q.expandedItems
     /\ settleTimers' = q.settleTimers
     /\ Rerender(data, q.expandedItems, loading, error)
     /\ UNCHANGED <<documentId, data, searchTerm, loading, error,
                    searchResults, requests, buildVars>>

\* mutant: toggling a node also selects it
toggleExpand_Selects(id) ==
  LET newExpanded == IF id \in expandedItems
                     THEN expandedItems \ {id}
                     ELSE expandedItems \cup {id}
  IN /\ expandedItems' = newExpanded
     /\ selectedItem' = id
     /\ Rerender(data, newExpanded, loading, error)
     /\ UNCHANGED <<documentId, data, searchTerm, loading, error,
                    searchResults, requests, settleTimers, buildVars>>

\* mutant: collapsing a node collapses every node
toggleExpand_CollapseAll(id) ==
  LET newExpanded == IF id \in expandedItems
                     THEN {}
                     ELSE expandedItems \cup {id}
  IN /\ expandedItems' = newExpanded
     /\ Rerender(data, newExpanded, loading, error)
     /\ UNCHANGED <<documentId, data, searchTerm, loading, error,
                    selectedItem, searchResults, requests, settleTimers,
                    buildVars>>

\* toggleExpand(id)
toggleExpand(id) ==
  LET newExpanded == IF id \in expandedItems
                     THEN expandedItems \ {id}
                     ELSE expandedItems \cup {id}
  IN /\ expandedItems' = newExpanded
     /\ Rerender(data, newExpanded, loading, error)
     /\ UNCHANGED <<documentId, data, searchTerm, loading, error,
                    selectedItem, searchResults, requests, settleTimers,
                    buildVars>>

\* mutant: a blank term is searched for like any other
handleSearch_NoBlankTest(term) ==
  /\ searchTerm' = term
  /\ searchResults' = searchInNodes(data, term)
  /\ UNCHANGED <<documentId, data, expandedItems, loading, error,
                 selectedItem, requests, settleTimers, clearTimers,
                 highlighted, buildVars>>

\* mutant: the loaded tree is narrowed to the matches
handleSearch_FiltersTree(term) ==
  /\ searchTerm' = term
  /\ searchResults' = SearchResultsFor(data, term)
  /\ data' = SearchResultsFor(data, term)
  /\ UNCHANGED <<documentId, expandedItems, loading, error,
                 selectedItem, requests, settleTimers, clearTimers,
                 highlighted, buildVars>>

\* handleSearch(term)
handleSearch(term) ==
  /\ searchTerm' = term
  /\ searchResults' = SearchResultsFor(data, term)
  /\ UNCHANGED <<documentId, data, expandedItems, loading, error,
                 selectedItem, requests, settleTimers, clearTimers,
                 highlighted, buildVars>>

\* fetchData up to its await
fetchData(doc) ==
  /\ loading' = TRUE
  /\ error' = NoError
  /\ requests' = [requests EXCEPT ![doc] = @ + 1]
  /\ Rerender(data, expandedItems, TRUE, NoError)
  /\ UNCHANGED <<data, expandedItems, searchTerm, selectedItem,
                 searchResults, settleTimers, buildVars>>

\* the onClick handlers a click on the content element of `id` runs, from
\* the element outwards until one stops the propagation
RECURSIVE ClickPath(_, _)
ClickPath(els, id) ==
  LET el == CHOOSE e \in els : e.id = id
  IN IF el.stops \/ el.within = Null THEN <<id>>
     ELSE <<id>> \o ClickPath(els, el.within)

\* ------------------------------------------------------------------------
\* BuildingCodeViewer: events
\* ------------------------------------------------------------------------
\* click on a row of the navigation sidebar
NavigationClick(id) ==
  /\ id \in {n.id : n \in NavigationRows}
  /\ Navigate(<<id>>)

\* click on an entry of the search results column
SearchResultClick(id) ==
  /\ MainView(loading, error) /\ isSearchMode
  /\ id \in Range(IdsOf(searchResults))
  /\ Navigate(<<id>>)

\* click on a content element
ContentClick(id) ==
  /\ id \in Rendered
  /\ Navigate(ClickPath(Elements, id))

\* click on a reference span: stopPropagation, then handleReferenceClick
ReferenceClick(ref) ==
  /\ ref \in ReferenceSpans
  /\ IF ReferenceTarget(ref) # Null
     THEN Navigate(<<ReferenceTarget(ref)>>)
     ELSE UNCHANGED vars

\* click on the chevron of a sidebar row, or on the button of a sentence
ExpandClick(id) ==
  /\ \/ \E n \in NavigationRows : n.id = id /\ n.children # <<>>
     \/ \E n \in Range(PreOrder(data)) :
          /\ n.id = id /\ n.id \in Rendered
          /\ n.content_type = "sentence" /\ n.children # <<>>
          /\ (CHOOSE e \in Elements : e.id = id).within # Null
  /\ toggleExpand(id)

\* typing in the search box
SearchInput(term) ==
  /\ MainView(loading, error)
  /\ term # searchTerm
  /\ handleSearch(term)

\* the X button of the search box
ClearSearch ==
  /\ MainView(loading, error)
  /\ searchTerm # <<>>
  /\ searchTerm' = <<>>
  /\ searchResults' = <<>>
  /\ UNCHANGED <<documentId, data, expandedItems, loading, error,
                 selectedItem, requests, settleTimers, clearTimers,
                 highlighted, buildVars>>

\* the parent passes another documentId: the effect runs fetchData
DocumentChange(doc) ==
  /\ doc # documentId
  /\ documentId' = doc
  /\ fetchData(doc)

\* the Try Again button of the error screen
Retry ==
  /\ ~loading /\ error # NoError
  /\ fetchData(documentId)
  /\ UNCHANGED documentId

\* mutant: the answer to a request for another document is discarded
FetchResolve_Guarded(doc) ==
  /\ requests[doc] > 0
  /\ requests' = [requests EXCEPT ![doc] = @ - 1]
  /\ loading' = FALSE
  /\ IF doc # documentId
     THEN /\ Rerender(data, expandedItems, FALSE, error)
          /\ UNCHANGED <<data, expandedItems, error>>
     ELSE LET hierarchicalData == buildHierarchy(Content(doc))
              allIds == collectIds(hierarchicalData)
          IN /\ data' = hierarchicalData
             /\ expandedItems' = allIds
             /\ Rerender(hierarchicalData, allIds, FALSE, error)
             /\ UNCHANGED error
  /\ UNCHANGED <<documentId, searchTerm, selectedItem, searchResults,
                 settleTimers, buildVars>>

\* the content API answers: fetchData continues after its await
FetchResolve(doc) ==
  /\ requests[doc] > 0
  /\ requests' = [requests EXCEPT ![doc] = @ - 1]
  /\ loading' = FALSE
  /\ IF SortRecursionUnbounded(Content(doc))
     THEN /\ error' = ErrorMessage
          /\ Rerender(data, expandedItems, FALSE, ErrorMessage)
          /\ UNCHANGED <<data, expandedItems>>
     ELSE LET hierarchicalData == buildHierarchy(Content(doc))
              allIds == collectIds(hierarchicalData)
          IN /\ data' = hierarchicalData
             /\ expandedItems' = allIds
             /\ Rerender(hierarchicalData, allIds, FALSE, error)
             /\ UNCHANGED error
  /\ UNCHANGED <<documentId, searchTerm, selectedItem, searchResults,
                 settleTimers, buildVars>>

\* mutant: the failure is swallowed
FetchReject_Swallowed(doc) ==
  /\ requests[doc] > 0
  /\ requests' = [requests EXCEPT ![doc] = @ - 1]
  /\ loading' = FALSE
  /\ Rerender(data, expandedItems, FALSE, error)
  /\ UNCHANGED <<documentId, data, expandedItems, searchTerm, selectedItem,
                 searchResults, settleTimers, error, buildVars>>

\* the content API fails: catch, then finally
FetchReject(doc) ==
  /\ requests[doc] > 0
  /\ requests' = [requests EXCEPT ![doc] = @ - 1]
  /\ error' = ErrorMessage
  /\ loading' = FALSE
  /\ Rerender(data, expandedItems, FALSE, ErrorMessage)
  /\ UNCHANGED <<documentId, data, expandedItems, searchTerm, selectedItem,
                 searchResults, settleTimers, buildVars>>

\* mutant: the element is not checked
SettleTimerFires_Unchecked ==
  /\ settleTimers # <<>>
  /\ settleTimers' = Tail(settleTimers)
  /\ highlighted' = highlighted \cup {Head(settleTimers)}
  /\ clearTimers' = Append(clearTimers, Head(settleTimers))
  /\ UNCHANGED <<documentId, data, expandedItems, searchTerm, loading,
                 error, selectedItem, searchResults, requests, buildVars>>

\* the 200 ms timer of navigateToItem fires: with the element mounted it
\* scrolls to it, sets the highlight background and arms the 2000 ms timer
SettleTimerFires ==
  /\ settleTimers # <<>>
  /\ settleTimers' = Tail(settleTimers)
  /\ IF Head(settleTimers) \in Rendered
     THEN /\ highlighted' = highlighted \cup {Head(settleTimers)}
          /\ clearTimers' = Append(clearTimers, Head(settleTimers))
     ELSE UNCHANGED <<highlighted, clearTimers>>
  /\ UNCHANGED <<documentId, data, expandedItems, searchTerm, loading,
                 error, selectedItem, searchResults, requests, buildVars>>

\* mutant: the 2000 ms timer is consumed but leaves the background
ClearTimerFires_KeepsHighlight ==
  /\ clearTimers # <<>>
  /\ clearTimers' = Tail(clearTimers)
  /\ UNCHANGED <<documentId, data, expandedItems, searchTerm, loading,
                 error, selectedItem, searchResults, requests, settleTimers,
                 highlighted, buildVars>>

\* mutant: the 2000 ms timer blanks every highlighted element
ClearTimerFires_ClearsAll ==
  /\ clearTimers # <<>>
  /\ clearTimers' = Tail(clearTimers)
  /\ highlighted' = {}
  /\ UNCHANGED <<documentId, data, expandedItems, searchTerm, loading,
                 error, selectedItem, searchResults, requests, settleTimers,
                 buildVars>>

\* a 2000 ms timer fires: element.style.backgroundColor = ""
ClearTimerFires ==
  /\ clearTimers # <<>>
  /\ clearTimers' = Tail(clearTimers)
  /\ highlighted' = highlighted \ {Head(clearTimers)}
  /\ UNCHANGED <<documentId, data, expandedItems, searchTerm, loading,
                 error, selectedItem, searchResults, requests, settleTimers,
                 buildVars>>

Init ==
  /\ flatData = <<>>
  /\ result = <<>>
  /\ bpc = "idle"
  /\ documentId \in Docs
  /\ requests = [d \in Docs |-> IF d = documentId THEN 1 ELSE 0]
  /\ Mounted
  /\ NoCall

\* after the step at most n navigation timers are pending
TimersWithin(n) == Len(settleTimers') + Len(clearTimers') <= n

\* after the step at most n fetchData calls await the content API
PendingWithin(n) == requests'["A"] + requests'["B"] <= n

Next ==
  \/ \E id \in {n.id : n \in NavigationRows} :
       NavigationClick(id) /\ TimersWithin(MaxTimers)
  \/ \E id \in Range(IdsOf(searchResults)) :
       SearchResultClick(id) /\ TimersWithin(MaxTimers)
  \/ \E id \in Rendered : ContentClick(id) /\ TimersWithin(MaxTimers)
  \/ \E ref \in ReferenceSpans :
       ReferenceClick(ref) /\ TimersWithin(MaxTimers)
  \/ \E id \in collectIds(data) : ExpandClick(id)
  \/ \E term \in SearchTerms : SearchInput(term)
  \/ ClearSearch
  \/ \E doc \in Docs : DocumentChange(doc) /\ PendingWithin(MaxPending)
  \/ Retry /\ PendingWithin(MaxPending)
  \/ \E doc \in Docs : FetchResolve(doc)
  \/ \E doc \in Docs : FetchReject(doc)
  \/ SettleTimerFires
  \/ ClearTimerFires

Spec == Init /\ [][Next]_vars

\* ------------------------------------------------------------------------
\* The viewer on document "A", browsing only: navigation, expansion and the
\* navigation timers, followed to a greater number of pending timers
\* ------------------------------------------------------------------------
NavInit == Init /\ documentId = "A"

NavNext ==
  \/ FetchResolve("A")
  \/ \E id \in {n.id : n \in NavigationRows} :
       NavigationClick(id) /\ TimersWithin(MaxNavTimers)
  \/ \E id \in Rendered : ContentClick(id) /\ TimersWithin(MaxNavTimers)
  \/ \E ref \in ReferenceSpans :
       ReferenceClick(ref) /\ TimersWithin(MaxNavTimers)
  \/ \E id \in collectIds(data) : ExpandClick(id)
  \/ SettleTimerFires
  \/ ClearTimerFires

SpecNav == NavInit /\ [][NavNext]_vars

\* the same with the event loop's guarantee that a timer whose delay has
\* elapsed is run: setTimeout callbacks are never cancelled here
SpecNavFair ==
  SpecNav /\ WF_vars(SettleTimerFires) /\ WF_vars(ClearTimerFires)

\* ------------------------------------------------------------------------
\* The viewer on document "A", searching: every query of up to MaxQueryLen
\* characters is typed, results are clicked
\* ------------------------------------------------------------------------
MaxQueryLen == 2

\* the characters typed: space, "9", "A"
QueryChars == {32, 57, 65}

SearchQueries == UNION {[1..n -> QueryChars] : n \in 0..MaxQueryLen}

SearchNext ==
  \/ FetchResolve("A")
  \/ \E term \in SearchQueries : SearchInput(term)
  \/ ClearSearch
  \/ \E id \in Range(IdsOf(searchResults)) :
       SearchResultClick(id) /\ TimersWithin(MaxTimers)
  \/ SettleTimerFires
  \/ ClearTimerFires

SpecSearch == NavInit /\ [][SearchNext]_vars

\* ------------------------------------------------------------------------
\* The viewer loading: document changes, retries and the answers of the
\* content API, with up to MaxLoadPending requests in flight; the sidebar
\* chevrons are the only other thing clicked
\* ------------------------------------------------------------------------
MaxLoadPending == 2

LoadNext ==
  \/ \E doc \in Docs : DocumentChange(doc) /\ PendingWithin(MaxLoadPending)
  \/ Retry /\ PendingWithin(MaxLoadPending)
  \/ \E doc \in Docs : FetchResolve(doc)
  \/ \E doc \in Docs : FetchReject(doc)
  \/ \E id \in collectIds(data) : ExpandClick(id)

SpecLoad == Init /\ [][LoadNext]_vars

\* ------------------------------------------------------------------------
\* Specification of the rendering functions as functions of their arguments
\* ------------------------------------------------------------------------
MaxTextLen == 3
MaxRefs == 2

MaxTermLen == 2

\* the characters of a text: ".", "A", "a", "b"
TextChars == {46, 65, 97, 98}

\* the characters of a search term: "(", ".", "B", "a"
TermChars == {40, 46, 66, 97}

Terms == UNION {[1..n -> TermChars] : n \in 0..MaxTermLen}

\* "The Building Code", "building"
ExampleText ==
  <<84, 104, 101, 32, 66, 117, 105, 108, 100, 105, 110, 103, 32, 67, 111,
    100, 101>>

ExampleTerm == <<98, 117, 105, 108, 100, 105, 110, 103>>

Texts == UNION {[1..n -> TextChars] : n \in 0..MaxTextLen}

\* reference_text "a", "b", "Ab" at reference_position 0 or 1
ReferenceInputs ==
  {Ref(t, p, Null, NullStr) : t \in {<<97>>, <<98>>, <<65, 98>>}, p \in 0..1}

ReferenceLists == UNION {[1..n -> ReferenceInputs] : n \in 0..MaxRefs}

\* references that are clicked: target_content_id null, 0 or 2, and
\* hyperlink_target null, "", "#bad", "#content-" or "#content-480"
ClickedReferences ==
  {Ref(<<97>>, 0, t, h) :
     t \in {Null, 0, 2},
     h \in {NullStr, <<>>, <<35, 98, 97, 100>>, AnchorPrefix,
            AnchorPrefix \o <<52, 56, 48>>}}

\* the call that is followed, with its arguments
CallInputs ==
  \/ \E t \in Texts, rs \in ReferenceLists :
       callArgs = [fn |-> "highlightReferences", text |-> t,
                   references |-> rs]
  \/ \E ref \in ClickedReferences :
       callArgs = [fn |-> "handleReferenceClick", reference |-> ref]
  \/ \E t \in Texts, h \in Terms :
       callArgs = [fn |-> "highlightText", text |-> t, highlight |-> h]
  \/ callArgs = [fn |-> "highlightText", text |-> ExampleText,
                 highlight |-> ExampleTerm]

CallInit ==
  /\ CallInputs
  /\ callOut = [status |-> "called", value |-> <<>>]
  /\ flatData = <<>>
  /\ result = <<>>
  /\ bpc = "idle"
  /\ documentId = "A"
  /\ requests = [d \in Docs |-> 0]
  /\ Mounted

\* highlightReferences returns its spans
ReferencesReturn ==
  /\ callOut.status = "called"
  /\ callArgs.fn = "highlightReferences"
  /\ callOut' = [status |-> "returned",
                 value |-> highlightReferences(callArgs.text,
                                               callArgs.references)]
  /\ UNCHANGED <<callArgs, flatData, result, bpc, viewVars>>

\* highlightText returns its parts
TextReturn ==
  /\ callOut.status = "called"
  /\ callArgs.fn = "highlightText"
  /\ ~highlightTextThrows(callArgs.text, callArgs.highlight)
  /\ callOut' = [status |-> "returned",
                 value |-> highlightText(callArgs.text, callArgs.highlight)]
  /\ UNCHANGED <<callArgs, flatData, result, bpc, viewVars>>

\* new RegExp throws inside highlightText
TextThrow ==
  /\ callOut.status = "called"
  /\ callArgs.fn = "highlightText"
  /\ highlightTextThrows(callArgs.text, callArgs.highlight)
  /\ callOut' = [status |-> "threw", value |-> <<>>]
  /\ UNCHANGED <<callArgs, flatData, result, bpc, viewVars>>

\* handleReferenceClick returns: the navigateToItem calls it made
ReferenceClickReturn ==
  /\ callOut.status = "called"
  /\ callArgs.fn = "handleReferenceClick"
  /\ callOut' = [status |-> "returned",
                 value |-> IF ReferenceTarget(callArgs.reference) = Null
                           THEN <<>>
                           ELSE <<ReferenceTarget(callArgs.reference)>>]
  /\ UNCHANGED <<callArgs, flatData, result, bpc, viewVars>>

CallNext ==
  ReferencesReturn \/ TextReturn \/ TextThrow \/ ReferenceClickReturn

SpecCalls == CallInit /\ [][CallNext]_vars

\* ------------------------------------------------------------------------
\* Properties of buildHierarchy (checked under SpecBuild)
\* ------------------------------------------------------------------------
NoDuplicateIds(flat) ==
  \A i, j \in 1..Len(flat) : i # j => flat[i].id # flat[j].id

RECURSIVE AncestorIds(_, _, _)
\* ids reached from id by following parent_id at most n times
AncestorIds(flat, id, n) ==
  IF n = 0 THEN {}
  ELSE LET ps == {flat[i].parent_id : i \in {j \in 1..Len(flat) :
                                              flat[j].id = id}}
                   \cap MapKeys(flat)
       IN ps \cup UNION {AncestorIds(flat, p, n - 1) : p \in ps}

\* no record is its own ancestor along parent_id
ParentCycleFree(flat) ==
  \A id \in MapKeys(flat) : id \notin AncestorIds(flat, id, Len(flat))

\* the node of the returned forest that carries id
NodeOf(forest, id) ==
  LET all == PreOrder(forest)
  IN all[CHOOSE i \in 1..Len(all) : all[i].id = id]

InForest(forest, id) == id \in Range(IdsOf(PreOrder(forest)))

Complete ==
  /\ Len(PreOrder(result)) = Len(flatData)
  /\ Range(IdsOf(PreOrder(result))) = MapKeys(flatData)

\* C1 as stated: with no duplicate ids, the nodes reachable from the
\* returned roots are exactly the input records, each once.
C1_Original ==
  (bpc = "returned" /\ NoDuplicateIds(flatData)) => Complete

\* C1 amended: with no duplicate ids and no cycle among the parent_id
\* references, the nodes reachable from the returned roots are exactly the
\* input records, each once.
C1_Complete ==
  (bpc = "returned" /\ NoDuplicateIds(flatData)
     /\ ParentCycleFree(flatData)) => Complete

\* a root with its child
C1_Witness ==
  /\ bpc = "returned"
  /\ NoDuplicateIds(flatData) /\ ParentCycleFree(flatData)
  /\ Len(flatData) = 2
  /\ Len(result) = 1
  /\ Len(PreOrder(result)) = 2

\* C2 as stated: a record whose parent_id is the id of an input record is
\* in that record's children and not among the roots; every other record
\* is among the roots (inputs with unique ids and no parent cycle).
C2_Placement ==
  (bpc = "returned" /\ NoDuplicateIds(flatData)
     /\ ParentCycleFree(flatData)) =>
    \A i \in 1..Len(flatData) :
      LET r == flatData[i]
      IN IF r.parent_id \in MapKeys(flatData)
         THEN /\ r.id \notin Range(IdsOf(result))
              /\ InForest(result, r.parent_id)
              /\ r.id \in Range(IdsOf(NodeOf(result, r.parent_id).children))
         ELSE r.id \in Range(IdsOf(result))

\* C3 as stated: a record whose non-null parent_id matches no input record
\* is a root of the returned forest, with the records that name it as
\* parent attached under it.
C3_OrphanRoot ==
  (bpc = "returned" /\ NoDuplicateIds(flatData)
     /\ ParentCycleFree(flatData)) =>
    \A i \in 1..Len(flatData) :
      LET r == flatData[i]
      IN (r.parent_id # Null /\ r.parent_id \notin MapKeys(flatData)) =>
           /\ r.id \in Range(IdsOf(result))
           /\ \A j \in 1..Len(flatData) :
                flatData[j].parent_id = r.id =>
                  flatData[j].id \in
                    Range(IdsOf(NodeOf(result, r.id).children))

Ascending(nodes) ==
  \A i \in 1..(Len(nodes) - 1) :
    nodes[i].sequence_order <= nodes[i + 1].sequence_order

\* position of the record with this id in the input
InputIndex(flat, id) == CHOOSE i \in 1..Len(flat) : flat[i].id = id

KeepsInputOrder(nodes) ==
  \A i, j \in 1..Len(nodes) :
    (i < j /\ nodes[i].sequence_order = nodes[j].sequence_order) =>
      InputIndex(flatData, nodes[i].id) < InputIndex(flatData, nodes[j].id)

TreeIds == Range(IdsOf(PreOrder(data)))

\* ids a navigateToItem call can receive
TargetIds == 0..AbsentId

\* the nodes that have t somewhere below them
ProperAncestors(tree, t) ==
  {n.id : n \in {m \in Range(PreOrder(tree)) :
                   t \in Range(IdsOf(PreOrder(m.children)))}}

\* C5: a navigateToItem(t) call for a target of the tree leaves the expanded
\* set equal to the previous set united with the proper ancestors of t; t
\* itself is not added and nothing is removed.
C5_AncestorsExpanded ==
  [][\A t \in TreeIds :
       Navigate(<<t>>) =>
         /\ expandedItems' = expandedItems \cup ProperAncestors(data, t)
         /\ (t \notin expandedItems => t \notin expandedItems')
         /\ expandedItems \subseteq expandedItems']_vars

\* the article (depth 3) was navigated to with both ancestors collapsed:
\* exactly its two ancestors were added
C5_Witness ==
  /\ selectedItem = 3
  /\ settleTimers # <<>> /\ settleTimers[Len(settleTimers)] = 3
  /\ expandedItems = {1, 2, 5}

\* C6: after navigateToItem(t) the selection is t, whatever it was before;
\* toggling, searching and clearing the search leave the selection alone.
C6_SingleSelection ==
  [][/\ \A t \in TargetIds : Navigate(<<t>>) => selectedItem' = t
     /\ ((\E id \in TreeIds : ExpandClick(id))
         \/ (\E term \in SearchTerms : SearchInput(term))
         \/ ClearSearch) => selectedItem' = selectedItem]_vars

\* the article was navigated to (its timers have run out); the division
\* was collapsed and a search without results typed since: it is still the
\* selection
C6_Witness ==
  /\ selectedItem = 3
  /\ settleTimers = <<>> /\ clearTimers = <<>>
  /\ 1 \notin expandedItems
  /\ searchTerm = <<113>>

\* C7: when the settle timer of a navigation fires and its target has no
\* mounted element, nothing is highlighted and no clear timer is armed; the
\* call itself completes and raises no error.
C7_MissingElementNoop ==
  [][/\ (SettleTimerFires /\ Head(settleTimers) \notin Rendered) =>
          /\ highlighted' = highlighted
          /\ clearTimers' = clearTimers
     /\ \A t \in TargetIds \ TreeIds :
          Navigate(<<t>>) => error' = error /\ loading' = loading]_vars

\* the timer of a navigation to an id without node has fired
C7_Witness ==
  /\ selectedItem = AbsentId
  /\ settleTimers = <<>>
  /\ clearTimers = <<>>
  /\ highlighted = {}
  /\ MainView(loading, error)

\* C8 as stated: a navigateToItem call with an id that is not in the loaded
\* tree leaves selectedItem and expandedItems as they were.
C8_UnknownIdIgnored ==
  [][\A t \in TargetIds \ TreeIds :
       Navigate(<<t>>) =>
         selectedItem' = selectedItem /\ expandedItems' = expandedItems]_vars

\* the state a navigateToItem(t) call leaves behind
Navigated(sel, expanded, t) ==
  sel = t /\ ProperAncestors(data, t) \subseteq expanded

\* C9: navigateToItem(t) leaves t selected with its ancestors expanded, and
\* a further navigateToItem(t) in that state changes neither selection nor
\* expanded set; it arms a settle timer of its own, and each settle timer
\* that finds the element mounted applies the highlight.
C9_NavigateIdempotent ==
  [][/\ \A t \in TargetIds :
          Navigate(<<t>>) =>
            /\ Navigated(selectedItem', expandedItems', t)
            /\ Navigated(selectedItem, expandedItems, t) =>
                 /\ selectedItem' = selectedItem
                 /\ expandedItems' = expandedItems
                 /\ settleTimers' = Append(settleTimers, t)
     /\ (SettleTimerFires /\ Head(settleTimers) \in Rendered) =>
          Head(settleTimers) \in highlighted']_vars

\* the same target was navigated to twice, both settle timers are pending
C9_Witness ==
  /\ settleTimers = <<3, 3>>
  /\ selectedItem = 3

\* C10: when a load succeeds the expanded set becomes exactly the ids of
\* the nodes of the tree it built.
C10_ExpandAllOnLoad ==
  [][\A doc \in Docs :
       (FetchResolve(doc) /\ ~SortRecursionUnbounded(Content(doc))) =>
         /\ data' = buildHierarchy(Content(doc))
         /\ expandedItems' = Range(IdsOf(PreOrder(data')))]_vars

\* document B was loaded over a session on document A (the article of A is
\* still selected): only the node of B is expanded
C10_Witness ==
  /\ selectedItem = 3
  /\ IdsOf(data) = <<6>>
  /\ expandedItems = {6}
  /\ ~loading

\* id is in exactly one of the two sets, every other id in both or neither
FlipsOnly(before, after, id) ==
  /\ (id \in after) = (id \notin before)
  /\ after \ {id} = before \ {id}

\* C11: toggleExpand(id) flips the membership of id in the expanded set and
\* of no other id, leaves selection, search term, search results and tree
\* as they were, and a second toggle of id gives back the set it started
\* from.
C11_ToggleFlips ==
  [][\A id \in TreeIds :
       ExpandClick(id) =>
         /\ FlipsOnly(expandedItems, expandedItems', id)
         /\ UNCHANGED <<selectedItem, searchTerm, searchResults, data>>
         /\ \A again \in SUBSET TreeIds :
              FlipsOnly(expandedItems', again, id) => again = expandedItems
     ]_vars

\* the part was collapsed while the article was selected and a search term
\* was in the box
C11_Witness ==
  /\ IdsOf(data) = <<1>>
  /\ expandedItems = {1, 3, 4, 5}
  /\ selectedItem = 3
  /\ searchTerm = <<113>>

\* ------------------------------------------------------------------------
\* Properties of the search (checked under SpecSearch)
\* ------------------------------------------------------------------------
\* needle is a substring of hay
Occurs(hay, needle) ==
  \E i \in 1..(Len(hay) - Len(needle) + 1) :
    \A k \in 1..Len(needle) : hay[i + k - 1] = needle[k]

\* the field is present and holds q, case ignored
FieldHolds(field, q) ==
  field # NullStr /\ Occurs(toLowerCase(field), toLowerCase(q))

NodeHolds(n, q) ==
  \/ FieldHolds(n.title, q)
  \/ FieldHolds(n.content_text, q)
  \/ FieldHolds(n.reference_code, q)

\* the nodes of the tree that hold q, in depth-first pre-order
NodesHolding(tree, q) == SelectSeq(PreOrder(tree), LAMBDA n : NodeHolds(n, q))

\* C12: for a non-blank query q, handleSearch sets searchResults to exactly
\* the nodes of the loaded tree whose title, content_text or reference_code
\* holds lowercase(q) as a substring of its lowercase, each once, in
\* depth-first pre-order, at every depth and for every content_type.
C12_SearchResults ==
  [][\A q \in SearchQueries :
       (SearchInput(q) /\ trim(q) # <<>>) =>
         searchResults' = NodesHolding(data, q)]_vars

\* "9" was typed: the part and the article match by reference_code, the
\* clause (depth 5, no navigation type) by title
C12_Witness ==
  /\ searchTerm = <<57>>
  /\ IdsOf(searchResults) = <<2, 3, 5>>

\* C13 as stated: handleSearch matches with the trimmed query, so a query
\* gives the results of the same query without its leading and trailing
\* whitespace.
C13_QueryTrimmed ==
  [][\A q \in SearchQueries :
       (SearchInput(q) /\ trim(q) # <<>>) =>
         searchResults' = NodesHolding(data, trim(q))]_vars

\* C14: in every reachable state, a search term that is empty or blank
\* goes with an empty result list and with search mode off.
C14_BlankNoResults ==
  trim(searchTerm) = <<>> => (searchResults = <<>> /\ ~isSearchMode)

\* a blank term is in the box of a loaded viewer in which a node was
\* navigated to and the division collapsed
C14_Witness ==
  /\ searchTerm = <<32>>
  /\ searchResults = <<>>
  /\ MainView(loading, error) /\ data # <<>>
  /\ selectedItem = 2
  /\ 1 \notin expandedItems

\* C15 as stated: with a non-blank search term that matched no node the
\* viewer does not show the navigation tree of browse mode.
C15_EmptyResultsState ==
  (trim(searchTerm) # <<>> /\ searchResults = <<>>
     /\ MainView(loading, error)) => "navigation" \notin Panels

\* ------------------------------------------------------------------------
\* Properties of the rendering functions (checked under SpecCalls)
\* ------------------------------------------------------------------------
RECURSIVE Concat(_)
\* the texts of the segments, joined
Concat(segs) ==
  IF segs = <<>> THEN <<>> ELSE Head(segs).text \o Concat(Tail(segs))

\* the segments that put something on screen
Visible(segs) == SelectSeq(segs, LAMBDA g : g.kind # "text" \/ g.text # <<>>)

\* the order of processing: ascending reference_position, references with
\* equal position in stored order
PositionOrder(refs) ==
  CHOOSE ix \in [1..Len(refs) -> 1..Len(refs)] :
    \A i, j \in 1..Len(refs) :
      i < j =>
        \/ refs[ix[i]].reference_position < refs[ix[j]].reference_position
        \/ /\ refs[ix[i]].reference_position = refs[ix[j]].reference_position
           /\ ix[i] < ix[j]

\* offsets (0-based) at or after cursor where refText occurs in text, case
\* ignored
OccurrencesFrom(text, refText, cursor) ==
  {i \in cursor..(Len(text) - Len(refText)) :
     \A k \in 1..Len(refText) :
       toLowerCase(text)[i + k] = toLowerCase(refText)[k]}

Least(S) == CHOOSE i \in S : \A j \in S : i <= j

RECURSIVE CursorBefore(_, _, _)
\* the scan cursor when the k-th reference in processing order is reached
CursorBefore(text, refs, k) ==
  IF k = 1 THEN 0
  ELSE LET prev == refs[PositionOrder(refs)[k - 1]]
           c == CursorBefore(text, refs, k - 1)
           occ == OccurrencesFrom(text, prev.reference_text, c)
       IN IF occ = {} THEN c ELSE Least(occ) + Len(prev.reference_text)

\* what the k-th reference in processing order emits
EmittedFor(text, refs, k) ==
  LET ref == refs[PositionOrder(refs)[k]]
      c == CursorBefore(text, refs, k)
      occ == OccurrencesFrom(text, ref.reference_text, c)
  IN IF occ = {} THEN <<>>
     ELSE (IF Least(occ) > c
           THEN <<Segment("text", SubSeq(text, c + 1, Least(occ)), NoRef)>>
           ELSE <<>>)
          \o <<Segment("ref",
                       SubSeq(text, Least(occ) + 1,
                              Least(occ) + Len(ref.reference_text)),
                       ref)>>

RECURSIVE EmittedUpTo(_, _, _)
EmittedUpTo(text, refs, k) ==
  IF k = 0 THEN <<>>
  ELSE EmittedUpTo(text, refs, k - 1) \o EmittedFor(text, refs, k)

\* the spans the scan puts on screen, the rest of the text last
ScanOutput(text, refs) ==
  LET end == CursorBefore(text, refs, Len(refs) + 1)
  IN EmittedUpTo(text, refs, Len(refs))
     \o (IF end < Len(text)
         THEN <<Segment("text", SubSeq(text, end + 1, Len(text)), NoRef)>>
         ELSE <<>>)

\* C16: highlightReferences takes the references in ascending
\* reference_position order with a cursor that starts at 0; each reference
\* is matched to its first occurrence (case ignored) at or after the cursor
\* and emits the text before it as plain text and the matched slice of the
\* original text as a clickable span, the cursor moving to the end of the
\* match; a reference without such an occurrence emits nothing and leaves
\* the cursor; the rest of the text comes last, and the spans joined give
\* back the text.
C16_ReferenceScan ==
  (callOut.status = "returned" /\ callArgs.fn = "highlightReferences") =>
     /\ Visible(callOut.value) = ScanOutput(callArgs.text, callArgs.references)
     /\ Concat(callOut.value) = callArgs.text

\* "bA" with the references "a" (position 1) and "Ab" (position 0): "Ab",
\* taken first, has no occurrence and is skipped; "a" then matches the "A"
C16_Witness ==
  /\ callOut.status = "returned"
  /\ callArgs.fn = "highlightReferences"
  /\ callArgs.text = <<98, 65>>
  /\ callArgs.references = << Ref(<<97>>, 1, Null, NullStr),
                              Ref(<<65, 98>>, 0, Null, NullStr) >>
  /\ callOut.value = << Segment("text", <<98>>, NoRef),
                        Segment("ref", <<65>>,
                                Ref(<<97>>, 1, Null, NullStr)) >>

RECURSIVE Merged(_)
\* the segments with neighbouring unmarked segments joined into one
Merged(segs) ==
  IF Len(segs) < 2 THEN segs
  ELSE IF segs[1].kind = "text" /\ segs[2].kind = "text"
       THEN Merged(<<Segment("text", segs[1].text \o segs[2].text, NoRef)>>
                   \o SubSeq(segs, 3, Len(segs)))
       ELSE <<segs[1]>> \o Merged(Tail(segs))

\* out splits text at the occurrences of term, case ignored: joined it is
\* text, every marked segment is an occurrence, and no stretch of unmarked
\* text holds one
SplitsAtOccurrences(out, text, term) ==
  /\ Concat(out) = text
  /\ \A i \in 1..Len(out) :
       out[i].kind \in {"text", "mark"}
       /\ (out[i].kind = "mark" =>
             toLowerCase(out[i].text) = toLowerCase(term))
  /\ \A i \in 1..Len(Merged(out)) :
       Merged(out)[i].kind = "text" =>
         ~Occurs(toLowerCase(Merged(out)[i].text), toLowerCase(term))

\* C19 as stated: highlightText(text, term) returns, for every text and
\* term, segments that split text at every occurrence of term (case
\* ignored) and, joined, are text with its original casing; for an empty
\* term it returns text as one unmarked segment.
C19_HighlightSplit ==
  callArgs # <<>> /\ callArgs.fn = "highlightText" =>
    /\ callOut.status # "threw"
    /\ callOut.status = "returned" =>
         IF callArgs.highlight = <<>>
         THEN callOut.value = <<Segment("text", callArgs.text, NoRef)>>
         ELSE SplitsAtOccurrences(callOut.value, callArgs.text,
                                  callArgs.highlight)

\* s is "#content-" followed by digits and nothing else
IsContentAnchor(s) ==
  /\ s # NullStr
  /\ Len(s) > Len(AnchorPrefix)
  /\ SubSeq(s, 1, Len(AnchorPrefix)) = AnchorPrefix
  /\ \A k \in (Len(AnchorPrefix) + 1)..Len(s) : IsDigit(s[k])

RECURSIVE Decimal(_)
\* the number a string of digits writes
Decimal(digits) ==
  IF digits = <<>> THEN 0
  ELSE 10 * Decimal(SubSeq(digits, 1, Len(digits) - 1))
       + (digits[Len(digits)] - 48)

\* the navigateToItem calls the activation of a reference is to make
ResolvedCalls(ref) ==
  IF ref.target_content_id # Null THEN <<ref.target_content_id>>
  ELSE IF IsContentAnchor(ref.hyperlink_target)
       THEN <<Decimal(SubSeq(ref.hyperlink_target, Len(AnchorPrefix) + 1,
                             Len(ref.hyperlink_target)))>>
       ELSE <<>>

\* C17 as stated: activating a reference navigates to target_content_id
\* when it is present, whatever integer it is; otherwise to the integer of
\* a hyperlink_target of the form "#content-<digits>"; otherwise it makes
\* no call.
C17_ReferenceResolution ==
  (callOut.status = "returned" /\ callArgs.fn = "handleReferenceClick") =>
     callOut.value = ResolvedCalls(callArgs.reference)

\* ------------------------------------------------------------------------
\* Properties of reference clicks in the viewer (checked under Spec)
\* ------------------------------------------------------------------------
\* C18 as stated: a click on a resolved reference span makes exactly one
\* navigateToItem call, with the resolved id, and no handler of a
\* containing node runs: the target is selected and one settle timer, the
\* target's, is armed.
C18_ReferenceClickContained ==
  /\ [](\A ref \in ReferenceSpans :
          ResolvedCalls(ref) # <<>> =>
            ReferenceTarget(ref) = ResolvedCalls(ref)[1])
  /\ [][\A ref \in ReferenceSpans :
          (ReferenceClick(ref) /\ ReferenceTarget(ref) # Null) =>
            /\ selectedItem' = ReferenceTarget(ref)
            /\ settleTimers' = Append(settleTimers, ReferenceTarget(ref))
       ]_vars

\* ------------------------------------------------------------------------
\* Properties of loading (checked under SpecLoad)
\* ------------------------------------------------------------------------
StartsFetch == Retry \/ \E doc \in Docs : DocumentChange(doc)

\* C20: when the content fetch fails, fetchData ends with error set to a
\* message and loading false, and what is shown is the error screen with
\* its retry button and no tree; an error stays as it is until a fetch is
\* started (retry or another documentId), and starting a fetch clears the
\* error and sets loading.
C20_FetchFailed ==
  [][/\ \A doc \in Docs :
          FetchReject(doc) =>
            /\ error' # NoError /\ loading' = FALSE
            /\ Panels' = {"error", "retry"}
            /\ Rendered' = {} /\ NavigationRows' = {}
     /\ (error # NoError /\ error' # error) => StartsFetch
     /\ StartsFetch => (error' = NoError /\ loading' = TRUE)
    ]_vars

\* document A was loaded and collapsed, then the load of document B
\* failed: the error screen is up, the tree of A still in data
C20_Witness ==
  /\ documentId = "B"
  /\ error # NoError /\ ~loading
  /\ IdsOf(data) = <<1>> /\ 1 \notin expandedItems
  /\ Panels = {"error", "retry"}
  /\ Rendered = {}

\* ------------------------------------------------------------------------
\* C21: no transformation lets an exception escape: for every search term,
\* terms with regular-expression metacharacters included, the match
\* emphasis of rendered text (highlightText) ends by returning, never by
\* throwing.
C21_NoExceptionEscapes ==
  (callArgs # <<>> /\ callArgs.fn = "highlightText")
    => callOut.status \in {"called", "returned"}

\* ------------------------------------------------------------------------
\* C22: a highlight is applied only by the 200 ms settle timer of a
\* navigateToItem call whose target is rendered, never at call time, and
\* that step arms the one-shot clear timer which removes it; every element
\* that is highlighted has a clear timer pending, so once all timers have
\* fired none is highlighted, and every highlight is eventually cleared.
C22_HighlightLifecycle ==
  /\ [](highlighted \subseteq Range(clearTimers))
  /\ []((settleTimers = <<>> /\ clearTimers = <<>>) => highlighted = {})
  /\ [][highlighted' \ highlighted # {}
          => /\ SettleTimerFires
             /\ Head(settleTimers) \in Rendered
             /\ highlighted' = highlighted \cup {Head(settleTimers)}
             /\ clearTimers' = Append(clearTimers, Head(settleTimers))]_vars
  /\ [][ClearTimerFires => Head(clearTimers) \notin highlighted']_vars
  /\ \A id \in TargetIds : (id \in highlighted) ~> (id \notin highlighted)

\* the settle timer of navigateToItem(5) has fired: the clause is
\* highlighted and its clear timer is the only timer pending
C22_Witness ==
  /\ selectedItem = 5
  /\ highlighted = {5}
  /\ clearTimers = <<5>>
  /\ settleTimers = <<>>

\* ------------------------------------------------------------------------
\* C23: toggleExpand, navigateToItem (from the sidebar, a search result, a
\* content element or a reference span), handleSearch and clearing the
\* search leave the loaded tree as it was; the tree changes only in the
\* step in which a load succeeds, to the hierarchy of the loaded document.
ViewOnlyStep ==
  \/ \E id \in TargetIds :
       \/ NavigationClick(id) \/ SearchResultClick(id) \/ ContentClick(id)
       \/ ExpandClick(id)
  \/ \E ref \in ReferenceSpans : ReferenceClick(ref)
  \/ \E term \in SearchTerms : SearchInput(term)
  \/ ClearSearch

C23_TreeFrame ==
  /\ [][data' = data \/ ~ViewOnlyStep]_vars
  /\ [][data' = data
          \/ \E doc \in Docs : /\ FetchResolve(doc)
                               /\ data' = buildHierarchy(Content(doc))]_vars

\* the tree of document A after a search, a navigation and a collapse
C23_Witness ==
  /\ data = buildHierarchy(ContentA)
  /\ searchTerm = <<98>>
  /\ selectedItem = 2
  /\ 3 \notin expandedItems
  /\ settleTimers = <<2>>

\* ------------------------------------------------------------------------
\* C24: overlapping loads are not guarded. StaleLast(doc): the request
\* for doc was started before the one for the current documentId, that one
\* has settled, and the request for doc is the only one outstanding.
StaleLast(doc) ==
  /\ doc # documentId
  /\ requests[doc] = 1
  /\ \A d \in Docs \ {doc} : requests[d] = 0

\* C24 as stated: when the stale request settles last, the tree, the
\* expanded set and the error flag are the ones it produced: its tree, all
\* ids of it and no error when it succeeded, its message when it failed.
C24_Original ==
  [][\A doc \in Docs :
       StaleLast(doc) =>
         /\ FetchResolve(doc) =>
              /\ data' = buildHierarchy(Content(doc))
              /\ expandedItems' = collectIds(data')
              /\ error' = NoError
         /\ FetchReject(doc) => error' = ErrorMessage
    ]_vars

\* C24 (amended): when the stale request settles last and succeeded, the
\* tree and the expanded set become those of its document although another
\* document is current, and the error flag stays as the newer request left
\* it; when it failed, the error becomes its message and the tree and the
\* expanded set stay as the newer request left them.
C24_StaleRequestWins ==
  [][\A doc \in Docs :
       StaleLast(doc) =>
         /\ FetchResolve(doc) =>
              /\ data' = buildHierarchy(Content(doc))
              /\ expandedItems' = collectIds(data')
              /\ error' = error
              /\ loading' = FALSE
         /\ FetchReject(doc) =>
              /\ error' = ErrorMessage
              /\ data' = data /\ expandedItems' = expandedItems
              /\ loading' = FALSE
    ]_vars

\* document A is current and nothing is outstanding or failed, yet the
\* tree shown is the one of document B: its answer arrived after A's
C24_Witness ==
  /\ documentId = "A"
  /\ IdsOf(data) = <<6>>
  /\ expandedItems = {6}
  /\ error = NoError /\ ~loading
  /\ \A d \in Docs : requests[d] = 0

\* ------------------------------------------------------------------------
\* C25 as stated: when the clear timer armed for A fires while another
\* element B is highlighted, B's own clear timer still pending, the step
\* removes B's highlight.
C25_Original ==
  [][(ClearTimerFires /\ highlighted \ {Head(clearTimers)} # {})
       => \E B \in highlighted \ {Head(clearTimers)} : B \notin highlighted'
    ]_vars

\* C25 (amended): a clear timer blanks the element it was armed for and
\* no other; the highlight of B goes away only when a clear timer armed for
\* B fires or when B's element leaves the page.
C25_TimerClearsOwnElement ==
  /\ [][ClearTimerFires
          => highlighted' = highlighted \ {Head(clearTimers)}]_vars
  /\ [][\A B \in highlighted :
          B \notin highlighted'
            => \/ ClearTimerFires /\ Head(clearTimers) = B
               \/ B \notin Rendered']_vars

\* navigateToItem(5) was called while the clear timer of navigateToItem(2)
\* was pending: both are highlighted, the timer of 2 fires first
C25_Witness ==
  /\ highlighted = {2, 5}
  /\ clearTimers = <<2, 5>>
  /\ selectedItem = 5

\* ------------------------------------------------------------------------
\* C26: navigateToItem was called twice for the same target and both calls
\* highlighted it, so two clear timers for the element are pending; when
\* the first of them fires the highlight re-applied by the second call
\* stays, until the second call's own clear timer fires.
C26_ReappliedHighlightStays ==
  [][(ClearTimerFires /\ Head(clearTimers) \in Range(Tail(clearTimers)))
       => Head(clearTimers) \in highlighted']_vars

\* ------------------------------------------------------------------------
\* C27: a click on the content element of a node, of whatever content
\* type, makes exactly one navigateToItem call, for that node: after the
\* click the node is the selection, its proper ancestors are expanded and
\* one settle timer, for that node, was added.
C27_ContentClickSelects ==
  [][\A id \in TargetIds :
       ContentClick(id) =>
         /\ selectedItem' = id
         /\ ProperAncestors(data, id) \subseteq expandedItems'
         /\ settleTimers' = Append(settleTimers, id)]_vars

\* ------------------------------------------------------------------------
\* C28: in every state the search results are the result of searching the
\* loaded tree for the current search term, and every node among them is a
\* node of the loaded tree, also after the document was reloaded or
\* replaced while a search term is set.
C28_SearchResultsCurrent ==
  /\ searchResults = SearchResultsFor(data, searchTerm)
  /\ Range(IdsOf(searchResults)) \subseteq Range(IdsOf(PreOrder(data)))

\* ------------------------------------------------------------------------
\* C29: loading is true in every state in which a fetchData call still
\* awaits its answer, overlapping calls included; loading is false only
\* when no request is outstanding.
C29_LoadingWhileOutstanding ==
  (\E d \in Docs : requests[d] > 0) => loading

\* ------------------------------------------------------------------------
\* C30: buildHierarchy ends by returning for every finite input, input
\* whose parent_id values form a cycle included: it does not throw, and
\* the records on a cycle and their descendants are absent from the
\* returned forest.
OnParentCycle(flat, id) == id \in AncestorIds(flat, id, Len(flat))

CycleOrBelow(flat, id) ==
  \/ OnParentCycle(flat, id)
  \/ \E a \in AncestorIds(flat, id, Len(flat)) : OnParentCycle(flat, a)

C30_Terminates == bpc # "threw"

C30_CyclesDropped ==
  bpc = "returned" =>
    \A id \in MapKeys(flatData) :
      CycleOrBelow(flatData, id) => ~InForest(result, id)

C30_TerminatesDroppingCycles == C30_Terminates /\ C30_CyclesDropped

\* the same for unique non-zero ids
C30_UniqueNonZero ==
  (NoDuplicateIds(flatData) /\ 0 \notin MapKeys(flatData))
    => C30_TerminatesDroppingCycles

====
